---- MODULE Spec2Model ----
(***************************************************************************)
(* Window tiler (window-tiler-challenge-starter-code/src/App.tsx): the     *)
(* layout tree, its bounds resolver, hit tester, snap resolver and tree    *)
(* mutators, driven by the component's event handlers.                     *)
(*                                                                         *)
(* Node ids come from makeId (timestamp + random suffix) and window ids    *)
(* from Date.now(); both are modelled as fresh numbers drawn from          *)
(* counters.  Pixel quantities are integers (innerWidth, clientX, ...).    *)
(* title and color of a window never influence the layout and are left out.*)
(* Each handler runs to completion on the state left by the previous one   *)
(* (functional setState updaters, listeners re-registered on every change).*)
(* The close button can be activated at any time, also during a drag.      *)
(*                                                                         *)
(* The repository holds two more demos, independent of the tiler and of    *)
(* each other: a two-column kanban board (unnamed/part_000) and a          *)
(* rectangle drawing and dividing canvas (unnamed/part_001).  Each demo    *)
(* has its own variables and its own specification (Spec, KanbanSpec,      *)
(* CanvasSpec); under the specification of one demo the variables of the   *)
(* other two stay in their initial state.                                  *)
(***************************************************************************)
EXTENDS Integers, Sequences, FiniteSets, TLC

VARIABLES windows, rootNode, viewport, dragging, snapPreview, nextNodeId, nextWindowId

vars == <<windows, rootNode, viewport, dragging, snapPreview, nextNodeId, nextWindowId>>

\* the kanban board: its two columns, its drag state, and the number of
\* drags begun so far
VARIABLES leftColumn, rightColumn, dragState, dragCount

boardVars == <<leftColumn, rightColumn, dragState, dragCount>>

\* the canvas: its rectangles, the drawing and dragging state, the crosshair
\* position, the number of rectangle ids given out so far, and the number of
\* mousedown events so far
VARIABLES rectangles, isDrawing, startPos, draggedRect, dragOffset, mousePos,
          rectCount, downCount

canvasVars ==
    <<rectangles, isDrawing, startPos, draggedRect, dragOffset, mousePos,
      rectCount, downCount>>

----------------------------------------------------------------------------
(* Bounds of the model *)

\* number of windows createWindow may create in one run
MaxWindows == 2

----------------------------------------------------------------------------
(* Program constants *)

WINDOW_WIDTH == 320
WINDOW_HEIGHT == 200
SNAP_DISTANCE == 50

\* windowId of a leaf that holds no window (windowId: null)
NoWindow == 0

\* the null LayoutNode / null SnapPreview / null dragging
Null == [type |-> "null"]

\* ratio 0.5 as an exact fraction
Half == [num |-> 1, den |-> 2]

Sides == {"left", "right", "top", "bottom"}

\* viewport sizes the resize observer may report (window.innerWidth/innerHeight)
Viewports == { [width |-> 400, height |-> 300], [width |-> 401, height |-> 300] }

\* pointer positions delivered by mousemove (clientX, clientY); positions
\* outside the viewport occur while a button is held
Pointers ==
    { [x |-> -60, y |-> 150], [x |-> 10, y |-> 10], [x |-> 100, y |-> 150],
      [x |-> 200, y |-> 120], [x |-> 370, y |-> 200], [x |-> 200, y |-> 270],
      [x |-> 200, y |-> 10] }

\* grab offsets inside the title bar (clientX - rect.left, clientY - rect.top)
GrabOffsets == { [x |-> 320, y |-> 10] }

\* outcomes of Math.random() * max(0, viewport - WINDOW_SIZE), as integers
InitialPositions == { [x |-> 0, y |-> 0] }

----------------------------------------------------------------------------
(* Arithmetic helpers *)

Max(a, b) == IF a >= b THEN a ELSE b
Min(a, b) == IF a <= b THEN a ELSE b

\* Math.floor(size * ratio) for an integer size and a fractional ratio
FloorMul(size, ratio) == (size * ratio.num) \div ratio.den

\* Math.round(size / 2): rounds half up, i.e. floor(size/2 + 1/2)
RoundHalf(size) == (size + 1) \div 2

----------------------------------------------------------------------------
(* Layout tree *)

Leaf(id, windowId) == [type |-> "leaf", id |-> id, windowId |-> windowId]

Split(id, orientation, first, second) ==
    [type |-> "split", id |-> id, orientation |-> orientation, ratio |-> Half,
     first |-> first, second |-> second]

Orientation(side) == IF side \in {"left", "right"} THEN "vertical" ELSE "horizontal"

NewFirstIsWindow(side) == side \in {"left", "top"}

\* { ...node, first: f, second: s }
WithChildren(node, f, s) == [node EXCEPT !.first = f, !.second = s]

RECURSIVE NodesOf(_)
\* all nodes of a tree, as a set
NodesOf(node) ==
    IF node.type = "null" THEN {}
    ELSE IF node.type = "leaf" THEN {node}
    ELSE {node} \cup NodesOf(node.first) \cup NodesOf(node.second)

RECURSIVE LeavesOf(_)
\* the leaves of a tree, left to right
LeavesOf(node) ==
    IF node.type = "null" THEN <<>>
    ELSE IF node.type = "leaf" THEN <<node>>
    ELSE LeavesOf(node.first) \o LeavesOf(node.second)

RECURSIVE NodeCount(_)
NodeCount(node) ==
    IF node.type = "null" THEN 0
    ELSE IF node.type = "leaf" THEN 1
    ELSE 1 + NodeCount(node.first) + NodeCount(node.second)

\* window ids held by the leaves of a tree
WindowsIn(node) ==
    { l.windowId : l \in { n \in NodesOf(node) : n.type = "leaf" /\ n.windowId # NoWindow } }

----------------------------------------------------------------------------
(* Bounds resolver *)

Bounds(x, y, width, height) == [x |-> x, y |-> y, width |-> width, height |-> height]

RECURSIVE computeBounds_FloorBoth(_, _, _, _, _)
\* computeBounds with the second child's extent floored like the first's
\* instead of taken as the remainder
computeBounds_FloorBoth(node, x, y, width, height) ==
    IF node.type = "null" THEN << >>
    ELSE IF node.type = "split" THEN
        IF node.orientation = "vertical" THEN
            LET firstW == FloorMul(width, node.ratio)
            IN  computeBounds_FloorBoth(node.second, x + firstW, y, firstW, height)
                @@ computeBounds_FloorBoth(node.first, x, y, firstW, height)
                @@ (node.id :> Bounds(x, y, width, height))
        ELSE
            LET firstH == FloorMul(height, node.ratio)
            IN  computeBounds_FloorBoth(node.second, x, y + firstH, width, firstH)
                @@ computeBounds_FloorBoth(node.first, x, y, width, firstH)
                @@ (node.id :> Bounds(x, y, width, height))
    ELSE (node.id :> Bounds(x, y, width, height))

RECURSIVE computeBounds(_, _, _, _, _)
\* the Map filled by computeBounds, as a function from node id to Bounds;
\* map.set of an id already present overwrites, so later entries win
computeBounds(node, x, y, width, height) ==
    IF node.type = "null" THEN << >>
    ELSE IF node.type = "split" THEN
        IF node.orientation = "vertical" THEN
            LET firstW == FloorMul(width, node.ratio)
                secondW == width - firstW
            IN  computeBounds(node.second, x + firstW, y, secondW, height)
                @@ computeBounds(node.first, x, y, firstW, height)
                @@ (node.id :> Bounds(x, y, width, height))
        ELSE
            LET firstH == FloorMul(height, node.ratio)
                secondH == height - firstH
            IN  computeBounds(node.second, x, y + firstH, width, secondH)
                @@ computeBounds(node.first, x, y, width, firstH)
                @@ (node.id :> Bounds(x, y, width, height))
    ELSE (node.id :> Bounds(x, y, width, height))

----------------------------------------------------------------------------
(* Hit tester *)


RECURSIVE findDeepestNodeAtPoint_FirstOnly(_, _, _, _, _, _, _)
\* findDeepestNodeAtPoint that never falls through to the second child
findDeepestNodeAtPoint_FirstOnly(node, x, y, width, height, px, py) ==
    IF node.type = "null" THEN Null
    ELSE IF px < x \/ px > x + width \/ py < y \/ py > y + height THEN Null
    ELSE IF node.type = "leaf" THEN node
    ELSE IF node.orientation = "vertical" THEN
        findDeepestNodeAtPoint_FirstOnly(node.first, x, y, FloorMul(width, node.ratio),
                                         height, px, py)
    ELSE
        findDeepestNodeAtPoint_FirstOnly(node.first, x, y, width,
                                         FloorMul(height, node.ratio), px, py)

RECURSIVE findDeepestNodeAtPoint(_, _, _, _, _, _, _)
findDeepestNodeAtPoint(node, x, y, width, height, px, py) ==
    IF node.type = "null" THEN Null
    ELSE IF px < x \/ px > x + width \/ py < y \/ py > y + height THEN Null
    ELSE IF node.type = "leaf" THEN node
    ELSE IF node.orientation = "vertical" THEN
        LET firstW == FloorMul(width, node.ratio)
            childA == findDeepestNodeAtPoint(node.first, x, y, firstW, height, px, py)
        IN  IF childA.type # "null" THEN childA
            ELSE findDeepestNodeAtPoint(node.second, x + firstW, y, width - firstW, height, px, py)
    ELSE
        LET firstH == FloorMul(height, node.ratio)
            childA == findDeepestNodeAtPoint(node.first, x, y, width, firstH, px, py)
        IN  IF childA.type # "null" THEN childA
            ELSE findDeepestNodeAtPoint(node.second, x, y + firstH, width, height - firstH, px, py)

----------------------------------------------------------------------------
(* Snap resolver *)

Preview(x, y, width, height, targetNodeId, side) ==
    [type |-> "preview", x |-> x, y |-> y, width |-> width, height |-> height,
     targetNodeId |-> targetNodeId, side |-> side]

\* targetNodeId: null
NoTarget == 0

Min4(a, b, c, d) == Min(Min(a, b), Min(c, d))



\* hitTestForPreview that tries the sides of a hit leaf in the order top,
\* bottom, left, right
hitTestForPreview_TopFirst(root, vp, px, py) ==
    LET map == computeBounds(root, 0, 0, vp.width, vp.height)
        targetNode == findDeepestNodeAtPoint(root, 0, 0, vp.width, vp.height, px, py)
    IN  IF targetNode.type # "null" THEN
            LET b == map[targetNode.id]
                distLeft == px - b.x
                distRight == b.x + b.width - px
                distTop == py - b.y
                distBottom == b.y + b.height - py
                minD == Min4(distLeft, distRight, distTop, distBottom)
            IN  IF minD > SNAP_DISTANCE THEN Null
                ELSE IF minD = distTop THEN
                    Preview(b.x, b.y, b.width, RoundHalf(b.height), targetNode.id, "top")
                ELSE IF minD = distBottom THEN
                    Preview(b.x, b.y + RoundHalf(b.height), b.width, RoundHalf(b.height), targetNode.id, "bottom")
                ELSE IF minD = distLeft THEN
                    Preview(b.x, b.y, RoundHalf(b.width), b.height, targetNode.id, "left")
                ELSE
                    Preview(b.x + RoundHalf(b.width), b.y, RoundHalf(b.width), b.height, targetNode.id, "right")
        ELSE IF px <= SNAP_DISTANCE THEN
            Preview(0, 0, RoundHalf(vp.width), vp.height, NoTarget, "left")
        ELSE IF px >= vp.width - SNAP_DISTANCE THEN
            Preview(RoundHalf(vp.width), 0, RoundHalf(vp.width), vp.height, NoTarget, "right")
        ELSE IF py <= SNAP_DISTANCE THEN
            Preview(0, 0, vp.width, RoundHalf(vp.height), NoTarget, "top")
        ELSE IF py >= vp.height - SNAP_DISTANCE THEN
            Preview(0, RoundHalf(vp.height), vp.width, RoundHalf(vp.height), NoTarget, "bottom")
        ELSE Null

\* hitTestForPreview without the snap threshold on a hit leaf
hitTestForPreview_NoThreshold(root, vp, px, py) ==
    LET map == computeBounds(root, 0, 0, vp.width, vp.height)
        targetNode == findDeepestNodeAtPoint(root, 0, 0, vp.width, vp.height, px, py)
    IN  IF targetNode.type # "null" THEN
            LET b == map[targetNode.id]
                distLeft == px - b.x
                distRight == b.x + b.width - px
                distTop == py - b.y
                distBottom == b.y + b.height - py
                minD == Min4(distLeft, distRight, distTop, distBottom)
            IN  IF minD = distLeft THEN
                    Preview(b.x, b.y, RoundHalf(b.width), b.height, targetNode.id, "left")
                ELSE IF minD = distRight THEN
                    Preview(b.x + RoundHalf(b.width), b.y, RoundHalf(b.width), b.height, targetNode.id, "right")
                ELSE IF minD = distTop THEN
                    Preview(b.x, b.y, b.width, RoundHalf(b.height), targetNode.id, "top")
                ELSE
                    Preview(b.x, b.y + RoundHalf(b.height), b.width, RoundHalf(b.height), targetNode.id, "bottom")
        ELSE IF px <= SNAP_DISTANCE THEN
            Preview(0, 0, RoundHalf(vp.width), vp.height, NoTarget, "left")
        ELSE IF px >= vp.width - SNAP_DISTANCE THEN
            Preview(RoundHalf(vp.width), 0, RoundHalf(vp.width), vp.height, NoTarget, "right")
        ELSE IF py <= SNAP_DISTANCE THEN
            Preview(0, 0, vp.width, RoundHalf(vp.height), NoTarget, "top")
        ELSE IF py >= vp.height - SNAP_DISTANCE THEN
            Preview(0, RoundHalf(vp.height), vp.width, RoundHalf(vp.height), NoTarget, "bottom")
        ELSE Null

hitTestForPreview(root, vp, px, py) ==
    LET map == computeBounds(root, 0, 0, vp.width, vp.height)
        targetNode == findDeepestNodeAtPoint(root, 0, 0, vp.width, vp.height, px, py)
    IN  IF targetNode.type # "null" THEN
            LET b == map[targetNode.id]
                distLeft == px - b.x
                distRight == b.x + b.width - px
                distTop == py - b.y
                distBottom == b.y + b.height - py
                minD == Min4(distLeft, distRight, distTop, distBottom)
            IN  IF minD > SNAP_DISTANCE THEN Null
                ELSE IF minD = distLeft THEN
                    Preview(b.x, b.y, RoundHalf(b.width), b.height, targetNode.id, "left")
                ELSE IF minD = distRight THEN
                    Preview(b.x + RoundHalf(b.width), b.y, RoundHalf(b.width), b.height, targetNode.id, "right")
                ELSE IF minD = distTop THEN
                    Preview(b.x, b.y, b.width, RoundHalf(b.height), targetNode.id, "top")
                ELSE
                    Preview(b.x, b.y + RoundHalf(b.height), b.width, RoundHalf(b.height), targetNode.id, "bottom")
        ELSE IF px <= SNAP_DISTANCE THEN
            Preview(0, 0, RoundHalf(vp.width), vp.height, NoTarget, "left")
        ELSE IF px >= vp.width - SNAP_DISTANCE THEN
            Preview(RoundHalf(vp.width), 0, RoundHalf(vp.width), vp.height, NoTarget, "right")
        ELSE IF py <= SNAP_DISTANCE THEN
            Preview(0, 0, vp.width, RoundHalf(vp.height), NoTarget, "top")
        ELSE IF py >= vp.height - SNAP_DISTANCE THEN
            Preview(0, RoundHalf(vp.height), vp.width, RoundHalf(vp.height), NoTarget, "bottom")
        ELSE Null

----------------------------------------------------------------------------
(* Tree mutator: insert *)

\* WrapWithWindow with the existing node always placed first
WrapWithWindow_ExistingFirst(existing, windowId, side, newId) ==
    Split(newId + 1, Orientation(side), existing, Leaf(newId, windowId))

\* the split built from a new leaf for windowId and an existing node; the
\* new leaf takes id newId and the split newId + 1
WrapWithWindow(existing, windowId, side, newId) ==
    LET winLeaf == Leaf(newId, windowId)
        first == IF NewFirstIsWindow(side) THEN winLeaf ELSE existing
        second == IF NewFirstIsWindow(side) THEN existing ELSE winLeaf
    IN  Split(newId + 1, Orientation(side), first, second)

RECURSIVE replaceNode_AlwaysWraps(_, _, _, _, _)
\* replaceNode without the branch that fills an unoccupied leaf
replaceNode_AlwaysWraps(node, targetId, windowId, side, newId) ==
    IF node.type = "null" THEN Null
    ELSE IF node.id = targetId THEN WrapWithWindow(node, windowId, side, newId)
    ELSE IF node.type = "split" THEN
        LET replacedFirst == replaceNode_AlwaysWraps(node.first, targetId, windowId, side, newId)
            replacedSecond == replaceNode_AlwaysWraps(node.second, targetId, windowId, side, newId)
        IN  IF replacedFirst = node.first /\ replacedSecond = node.second THEN node
            ELSE WithChildren(node,
                     IF replacedFirst.type # "null" THEN replacedFirst ELSE node.first,
                     IF replacedSecond.type # "null" THEN replacedSecond ELSE node.second)
    ELSE node

RECURSIVE replaceNode(_, _, _, _, _)
replaceNode(node, targetId, windowId, side, newId) ==
    IF node.type = "null" THEN Null
    ELSE IF node.id = targetId THEN
        IF node.type = "leaf" /\ node.windowId = NoWindow
        THEN [node EXCEPT !.windowId = windowId]
        ELSE WrapWithWindow(node, windowId, side, newId)
    ELSE IF node.type = "split" THEN
        LET replacedFirst == replaceNode(node.first, targetId, windowId, side, newId)
            replacedSecond == replaceNode(node.second, targetId, windowId, side, newId)
        IN  IF replacedFirst = node.first /\ replacedSecond = node.second THEN node
            ELSE WithChildren(node,
                     IF replacedFirst.type # "null" THEN replacedFirst ELSE node.first,
                     IF replacedSecond.type # "null" THEN replacedSecond ELSE node.second)
    ELSE node

\* insertRoot that makes the first window the only leaf, without the
\* placeholder leaf and the split
insertRoot_NoPlaceholder(prev, windowId, targetNodeId, side, newId) ==
    IF prev.type = "null" THEN Leaf(newId, windowId)
    ELSE IF targetNodeId = NoTarget THEN
        WrapWithWindow(prev, windowId, side, newId)
    ELSE
        LET newRoot == replaceNode(prev, targetNodeId, windowId, side, newId)
        IN  IF newRoot.type # "null" THEN newRoot ELSE prev


\* insertRoot whose viewport-edge branch wraps a placeholder leaf instead of
\* the existing tree
insertRoot_EdgeDropsTree(prev, windowId, targetNodeId, side, newId) ==
    IF prev.type = "null" \/ targetNodeId = NoTarget THEN
        WrapWithWindow(Leaf(newId + 2, NoWindow), windowId, side, newId)
    ELSE
        LET newRoot == replaceNode(prev, targetNodeId, windowId, side, newId)
        IN  IF newRoot.type # "null" THEN newRoot ELSE prev

\* insertRoot that treats a target found nowhere in the tree like a
\* viewport-edge snap
insertRoot_UnknownWrapsRoot(prev, windowId, targetNodeId, side, newId) ==
    IF prev.type = "null" THEN
        WrapWithWindow(Leaf(newId + 2, NoWindow), windowId, side, newId)
    ELSE IF targetNodeId = NoTarget THEN
        WrapWithWindow(prev, windowId, side, newId)
    ELSE
        LET newRoot == replaceNode(prev, targetNodeId, windowId, side, newId)
        IN  IF newRoot # prev THEN newRoot ELSE WrapWithWindow(prev, windowId, side, newId)

\* the updater insertIntoLayout passes to setRootNode; fresh node ids are
\* newId, newId + 1, newId + 2
insertRoot(prev, windowId, targetNodeId, side, newId) ==
    IF prev.type = "null" THEN
        WrapWithWindow(Leaf(newId + 2, NoWindow), windowId, side, newId)
    ELSE IF targetNodeId = NoTarget THEN
        WrapWithWindow(prev, windowId, side, newId)
    ELSE
        LET newRoot == replaceNode(prev, targetNodeId, windowId, side, newId)
        IN  IF newRoot.type # "null" THEN newRoot ELSE prev

\* the updater insertIntoLayout passes to setWindows
markSnapped(ws, windowId, flag) ==
    [i \in DOMAIN ws |-> IF ws[i].id = windowId THEN [ws[i] EXCEPT !.isSnapped = flag] ELSE ws[i]]

----------------------------------------------------------------------------
(* Tree mutator: remove *)

RECURSIVE remove_NoCollapse(_, _)
\* remove without the collapse of a split that lost a child
remove_NoCollapse(node, windowId) ==
    IF node.type = "null" THEN Null
    ELSE IF node.type = "leaf" THEN
        IF node.windowId = windowId THEN Null ELSE node
    ELSE WithChildren(node, remove_NoCollapse(node.first, windowId),
                            remove_NoCollapse(node.second, windowId))

RECURSIVE remove_DropsEmptyLeaves(_, _)
\* remove that also deletes leaves holding no window
remove_DropsEmptyLeaves(node, windowId) ==
    IF node.type = "null" THEN Null
    ELSE IF node.type = "leaf" THEN
        IF node.windowId = windowId \/ node.windowId = NoWindow THEN Null ELSE node
    ELSE
        LET f == remove_DropsEmptyLeaves(node.first, windowId)
            s == remove_DropsEmptyLeaves(node.second, windowId)
        IN  IF f.type = "null" /\ s.type = "null" THEN Null
            ELSE IF f.type = "null" THEN s
            ELSE IF s.type = "null" THEN f
            ELSE WithChildren(node, f, s)

RECURSIVE remove(_, _)
remove(node, windowId) ==
    IF node.type = "null" THEN Null
    ELSE IF node.type = "leaf" THEN
        IF node.windowId = windowId THEN Null ELSE node
    ELSE
        LET f == remove(node.first, windowId)
            s == remove(node.second, windowId)
        IN  IF f.type = "null" /\ s.type = "null" THEN Null
            ELSE IF f.type = "null" THEN s
            ELSE IF s.type = "null" THEN f
            ELSE WithChildren(node, f, s)

----------------------------------------------------------------------------
(* The initial state of each demo *)

\* a card of the board; its colour never influences a move and is left out
Card(id, height) == [id |-> id, height |-> height]

InitialLeftColumn == << Card(1, 120), Card(2, 80), Card(3, 100), Card(4, 140) >>
InitialRightColumn == << Card(5, 70), Card(6, 160), Card(7, 130), Card(8, 110) >>

\* draggedCard: null
NoCard == [id |-> 0, height |-> 0]

\* draggedFrom: null / dropTarget: null
NoPlace == [columnId |-> -1, index |-> -1]

Place(columnId, index) == [columnId |-> columnId, index |-> index]

Origin == [x |-> 0, y |-> 0]

\* the drag state of the board when no drag is in progress
IdleDragState ==
    [isDragging |-> FALSE, draggedCard |-> NoCard, draggedFrom |-> NoPlace,
     dropTarget |-> NoPlace, mousePosition |-> Origin]

\* draggedRect: null (an index otherwise, counted from 0)
NoRect == -1

TilerAtRest ==
    /\ windows = << >>
    /\ rootNode = Null
    /\ viewport = [width |-> 400, height |-> 300]
    /\ dragging = Null
    /\ snapPreview = Null
    /\ nextNodeId = 1
    /\ nextWindowId = 1

BoardAtRest ==
    /\ leftColumn = InitialLeftColumn
    /\ rightColumn = InitialRightColumn
    /\ dragState = IdleDragState
    /\ dragCount = 0

CanvasAtRest ==
    /\ rectangles = << >>
    /\ isDrawing = FALSE
    /\ startPos = Origin
    /\ draggedRect = NoRect
    /\ dragOffset = Origin
    /\ mousePos = Origin
    /\ rectCount = 0
    /\ downCount = 0

----------------------------------------------------------------------------
(* State and event handlers *)

WindowItem(id, x, y, isSnapped) == [id |-> id, x |-> x, y |-> y, isSnapped |-> isSnapped]

WindowIds == { windows[i].id : i \in DOMAIN windows }

Init ==
    /\ windows = << >>
    /\ rootNode = Null
    /\ viewport \in Viewports
    /\ dragging = Null
    /\ snapPreview = Null
    /\ nextNodeId = 1
    /\ nextWindowId = 1
    /\ BoardAtRest
    /\ CanvasAtRest

\* the "+" button
createWindow ==
    /\ nextWindowId <= MaxWindows
    /\ \E p \in InitialPositions :
         windows' = Append(windows, WindowItem(nextWindowId, p.x, p.y, FALSE))
    /\ nextWindowId' = nextWindowId + 1
    /\ UNCHANGED <<rootNode, viewport, dragging, snapPreview, nextNodeId>>
    /\ UNCHANGED <<boardVars, canvasVars>>

\* onMouseDownWindow were the title bar of a snapped pane draggable too
onMouseDownWindow_AnyWindow ==
    /\ \E i \in DOMAIN windows, off \in GrabOffsets :
         dragging' = [type |-> "drag", windowId |-> windows[i].id,
                      offsetX |-> off.x, offsetY |-> off.y]
    /\ UNCHANGED <<windows, rootNode, viewport, snapPreview, nextNodeId, nextWindowId>>
    /\ UNCHANGED <<boardVars, canvasVars>>

\* mousedown on the title bar of a floating window
onMouseDownWindow ==
    /\ \E i \in DOMAIN windows, off \in GrabOffsets :
         /\ ~windows[i].isSnapped
         /\ dragging' = [type |-> "drag", windowId |-> windows[i].id,
                         offsetX |-> off.x, offsetY |-> off.y]
    /\ UNCHANGED <<windows, rootNode, viewport, snapPreview, nextNodeId, nextWindowId>>
    /\ UNCHANGED <<boardVars, canvasVars>>

\* mousemove that already inserts the dragged window where the preview is
onMove_InsertsAtPreview ==
    \E p \in Pointers :
       IF dragging.type = "null" THEN UNCHANGED <<vars, boardVars, canvasVars>>
       ELSE
         LET preview == hitTestForPreview(rootNode, viewport, p.x, p.y)
         IN
         /\ windows' = [i \in DOMAIN windows |->
                IF windows[i].id # dragging.windowId THEN windows[i]
                ELSE [windows[i] EXCEPT
                        !.x = Max(0, Min(p.x - dragging.offsetX, viewport.width - WINDOW_WIDTH)),
                        !.y = Max(0, Min(p.y - dragging.offsetY, viewport.height - WINDOW_HEIGHT))]]
         /\ snapPreview' = preview
         /\ rootNode' = IF preview.type = "null" THEN rootNode
                        ELSE insertRoot(rootNode, dragging.windowId,
                                        preview.targetNodeId, preview.side, nextNodeId)
         /\ nextNodeId' = IF preview.type = "null" THEN nextNodeId ELSE nextNodeId + 3
         /\ UNCHANGED <<viewport, dragging, nextWindowId>>
         /\ UNCHANGED <<boardVars, canvasVars>>

\* document mousemove
onMove ==
    \E p \in Pointers :
       LET px == p.x
           py == p.y
       IN
       IF dragging.type = "null" THEN UNCHANGED <<vars, boardVars, canvasVars>>
       ELSE
         /\ windows' = [i \in DOMAIN windows |->
                IF windows[i].id # dragging.windowId THEN windows[i]
                ELSE [windows[i] EXCEPT
                        !.x = Max(0, Min(px - dragging.offsetX, viewport.width - WINDOW_WIDTH)),
                        !.y = Max(0, Min(py - dragging.offsetY, viewport.height - WINDOW_HEIGHT))]]
         /\ snapPreview' = hitTestForPreview(rootNode, viewport, px, py)
         /\ UNCHANGED <<rootNode, viewport, dragging, nextNodeId, nextWindowId>>
         /\ UNCHANGED <<boardVars, canvasVars>>

\* mouseup that inserts the dragged window on every release of a drag, at the
\* left viewport edge when there is no preview
onUp_AlwaysInserts ==
    /\ IF dragging.type # "null"
       THEN /\ rootNode' = IF snapPreview.type # "null"
                           THEN insertRoot(rootNode, dragging.windowId,
                                           snapPreview.targetNodeId, snapPreview.side, nextNodeId)
                           ELSE insertRoot(rootNode, dragging.windowId, NoTarget, "left", nextNodeId)
            /\ windows' = markSnapped(windows, dragging.windowId, TRUE)
            /\ nextNodeId' = nextNodeId + 3
       ELSE UNCHANGED <<rootNode, windows, nextNodeId>>
    /\ dragging' = Null
    /\ snapPreview' = Null
    /\ UNCHANGED <<viewport, nextWindowId>>
    /\ UNCHANGED <<boardVars, canvasVars>>

\* document mouseup
onUp ==
    /\ IF dragging.type # "null" /\ snapPreview.type # "null"
       THEN /\ rootNode' = insertRoot(rootNode, dragging.windowId,
                                      snapPreview.targetNodeId, snapPreview.side, nextNodeId)
            /\ windows' = markSnapped(windows, dragging.windowId, TRUE)
            /\ nextNodeId' = nextNodeId + 3
       ELSE UNCHANGED <<rootNode, windows, nextNodeId>>
    /\ dragging' = Null
    /\ snapPreview' = Null
    /\ UNCHANGED <<viewport, nextWindowId>>
    /\ UNCHANGED <<boardVars, canvasVars>>

\* the close button of a floating or a snapped window
deleteWindow ==
    \E i \in DOMAIN windows :
       LET windowId == windows[i].id
           IsOther(w) == w.id # windowId
       IN  /\ rootNode' = remove(rootNode, windowId)
           /\ windows' = SelectSeq(markSnapped(windows, windowId, FALSE), IsOther)
           /\ UNCHANGED <<viewport, dragging, snapPreview, nextNodeId, nextWindowId>>
           /\ UNCHANGED <<boardVars, canvasVars>>

\* window resize
onResize ==
    /\ \E v \in Viewports : viewport' = v
    /\ UNCHANGED <<windows, rootNode, dragging, snapPreview, nextNodeId, nextWindowId>>
    /\ UNCHANGED <<boardVars, canvasVars>>

Next ==
    \/ createWindow
    \/ onMouseDownWindow
    \/ onMove
    \/ onUp
    \/ deleteWindow
    \/ onResize

Spec == Init /\ [][Next]_<<vars, boardVars, canvasVars>>

----------------------------------------------------------------------------
(* Kanban board (unnamed/part_000) *)
(*                                                                         *)
(* Indices are those of the code, counted from 0.  A dragend event is      *)
(* delivered only to a card whose dragstart began the drag; dragover       *)
(* events reach a column at any time and name an index between 0 and the   *)
(* column's length.                                                        *)

\* number of drags handleDragStart may begin in one run
MaxDrags == 2

\* pointer positions delivered with drag and mouse events (clientX, clientY)
MousePositions == { [x |-> 40, y |-> 60] , [x |-> 300, y |-> 90] }

ColumnIds == {0, 1}

\* the column a column id selects: columnId === 0 ? leftColumn : rightColumn
ColumnOf(columnId, left, right) == IF columnId = 0 THEN left ELSE right

\* column.splice(index, 1): the column without the element at index
SpliceOut(column, index) ==
    [k \in 1..(Len(column) - 1) |-> IF k <= index THEN column[k] ELSE column[k + 1]]

\* column.splice(index, 0, card): card put in at index, at the end when index
\* exceeds the length
SpliceIn(column, index, card) ==
    LET at == Min(index, Len(column))
    IN  SubSeq(column, 1, at) \o << card >> \o SubSeq(column, at + 1, Len(column))

\* the drop of handleDragEnd that inserts at targetIndex without adjusting it
\* for the removal of the moved card from the same column
Dropped_NoAdjust(left, right, from, target) ==
    LET sourceColumn == ColumnOf(from.columnId, left, right)
        movedCard == sourceColumn[from.index + 1]
    IN  IF from.columnId = target.columnId
        THEN LET newColumn == SpliceIn(SpliceOut(sourceColumn, from.index),
                                       target.index, movedCard)
             IN  IF from.columnId = 0 THEN [left |-> newColumn, right |-> right]
                 ELSE [left |-> left, right |-> newColumn]
        ELSE LET newSourceColumn == SpliceOut(sourceColumn, from.index)
                 newTargetColumn == SpliceIn(ColumnOf(target.columnId, left, right),
                                             target.index, movedCard)
             IN  IF from.columnId = 0
                 THEN [left |-> newSourceColumn, right |-> newTargetColumn]
                 ELSE [left |-> newTargetColumn, right |-> newSourceColumn]

\* the drop of handleDragEnd that leaves the moved card in its source column
\* when it goes to the other column
Dropped_KeepsSource(left, right, from, target) ==
    LET sourceColumn == ColumnOf(from.columnId, left, right)
        movedCard == sourceColumn[from.index + 1]
    IN  IF from.columnId = target.columnId
        THEN LET adjustedIndex == IF from.index < target.index THEN target.index - 1
                                  ELSE target.index
                 newColumn == SpliceIn(SpliceOut(sourceColumn, from.index),
                                       adjustedIndex, movedCard)
             IN  IF from.columnId = 0 THEN [left |-> newColumn, right |-> right]
                 ELSE [left |-> left, right |-> newColumn]
        ELSE LET newTargetColumn == SpliceIn(ColumnOf(target.columnId, left, right),
                                             target.index, movedCard)
             IN  IF from.columnId = 0
                 THEN [left |-> left, right |-> newTargetColumn]
                 ELSE [left |-> newTargetColumn, right |-> right]

\* the two columns after the drop of handleDragEnd, for a source and a target
\* that differ
Dropped(left, right, from, target) ==
    LET sourceColumn == ColumnOf(from.columnId, left, right)
        movedCard == sourceColumn[from.index + 1]
    IN  IF from.columnId = target.columnId
        THEN LET adjustedIndex == IF from.index < target.index THEN target.index - 1
                                  ELSE target.index
                 newColumn == SpliceIn(SpliceOut(sourceColumn, from.index),
                                       adjustedIndex, movedCard)
             IN  IF from.columnId = 0 THEN [left |-> newColumn, right |-> right]
                 ELSE [left |-> left, right |-> newColumn]
        ELSE LET newSourceColumn == SpliceOut(sourceColumn, from.index)
                 newTargetColumn == SpliceIn(ColumnOf(target.columnId, left, right),
                                             target.index, movedCard)
             IN  IF from.columnId = 0
                 THEN [left |-> newSourceColumn, right |-> newTargetColumn]
                 ELSE [left |-> newTargetColumn, right |-> newSourceColumn]

KanbanInit ==
    /\ leftColumn = InitialLeftColumn
    /\ rightColumn = InitialRightColumn
    /\ dragState = IdleDragState
    /\ dragCount = 0
    /\ TilerAtRest
    /\ CanvasAtRest

\* dragstart on the card at index of a column
handleDragStart ==
    /\ ~dragState.isDragging
    /\ dragCount < MaxDrags
    /\ \E columnId \in ColumnIds, p \in MousePositions :
         \E index \in 0..(Len(ColumnOf(columnId, leftColumn, rightColumn)) - 1) :
            dragState' = [isDragging |-> TRUE,
                          draggedCard |-> ColumnOf(columnId, leftColumn, rightColumn)[index + 1],
                          draggedFrom |-> Place(columnId, index),
                          dropTarget |-> NoPlace,
                          mousePosition |-> p]
    /\ dragCount' = dragCount + 1
    /\ UNCHANGED <<leftColumn, rightColumn, vars, canvasVars>>

\* window mousemove
handleMouseMove ==
    /\ \E p \in MousePositions :
         dragState' = IF dragState.isDragging
                      THEN [dragState EXCEPT !.mousePosition = p]
                      ELSE dragState
    /\ UNCHANGED <<leftColumn, rightColumn, dragCount, vars, canvasVars>>

\* dragover on a column, which names the index the pointer is at
handleDragOver ==
    /\ \E columnId \in ColumnIds, p \in MousePositions :
         \E index \in 0..Len(ColumnOf(columnId, leftColumn, rightColumn)) :
            dragState' = IF dragState.isDragging
                         THEN [dragState EXCEPT !.dropTarget = Place(columnId, index),
                                                !.mousePosition = p]
                         ELSE dragState
    /\ UNCHANGED <<leftColumn, rightColumn, dragCount, vars, canvasVars>>

\* dragend on the dragged card
handleDragEnd ==
    /\ dragState.isDragging
    /\ IF /\ dragState.dropTarget # NoPlace
          /\ dragState.draggedCard # NoCard
          /\ dragState.draggedFrom # NoPlace
          /\ dragState.dropTarget # dragState.draggedFrom
       THEN LET d == Dropped(leftColumn, rightColumn,
                             dragState.draggedFrom, dragState.dropTarget)
            IN  /\ leftColumn' = d.left
                /\ rightColumn' = d.right
       ELSE UNCHANGED <<leftColumn, rightColumn>>
    /\ dragState' = IdleDragState
    /\ UNCHANGED <<dragCount, vars, canvasVars>>

KanbanNext ==
    \/ handleDragStart
    \/ handleMouseMove
    \/ handleDragOver
    \/ handleDragEnd

KanbanSpec == KanbanInit /\ [][KanbanNext]_<<vars, boardVars, canvasVars>>

----------------------------------------------------------------------------
(* Rectangle canvas (unnamed/part_001) *)
(*                                                                         *)
(* The canvas fills the page, so an event's coordinates relative to the    *)
(* canvas are its client coordinates, and one mousemove reaches both the   *)
(* window listener and the canvas handler.  Rectangle ids (Date.now() +    *)
(* Math.random()) are modelled as fresh numbers from a counter; a colour   *)
(* is its index in the colors array.                                       *)

\* number of mousedown events in one run
MaxDowns == 3

minSize == 30

\* a drawn rectangle must be wider and higher than this
MinDrawn == 5

\* colors.length
NumColors == 5

\* positions of mouse events on the canvas (e.clientX - rect.left, e.clientY - rect.top)
CanvasPoints ==
    { [x |-> 100, y |-> 100], [x |-> 200, y |-> 200], [x |-> 50, y |-> 150],
      [x |-> 25, y |-> 125], [x |-> 150, y |-> 150] }

Rectangle(id, x, y, width, height, color) ==
    [id |-> id, x |-> x, y |-> y, width |-> width, height |-> height, color |-> color]

\* the horizontal crosshair line crosses the inside of the rectangle
horizontalIntersects(rectangle, clickY) ==
    clickY > rectangle.y /\ clickY < rectangle.y + rectangle.height

\* the vertical crosshair line crosses the inside of the rectangle
verticalIntersects(rectangle, clickX) ==
    clickX > rectangle.x /\ clickX < rectangle.x + rectangle.width

canDivideHorizontally(rectangle, clickY) ==
    horizontalIntersects(rectangle, clickY) /\ rectangle.height >= minSize * 2

canDivideVertically(rectangle, clickX) ==
    verticalIntersects(rectangle, clickX) /\ rectangle.width >= minSize * 2

\* Pieces whose second piece of a two-way division keeps the size of the
\* whole rectangle
Pieces_SecondKeepsSize(rectangle, clickX, clickY, id) ==
    LET relativeX == clickX - rectangle.x
        relativeY == clickY - rectangle.y
    IN  IF canDivideHorizontally(rectangle, clickY) /\ canDivideVertically(rectangle, clickX)
        THEN << [rectangle EXCEPT !.id = id + 1, !.width = relativeX, !.height = relativeY],
                [rectangle EXCEPT !.id = id + 2, !.x = rectangle.x + relativeX,
                                  !.width = rectangle.width - relativeX,
                                  !.height = relativeY],
                [rectangle EXCEPT !.id = id + 3, !.y = rectangle.y + relativeY,
                                  !.width = relativeX,
                                  !.height = rectangle.height - relativeY],
                [rectangle EXCEPT !.id = id + 4, !.x = rectangle.x + relativeX,
                                  !.y = rectangle.y + relativeY,
                                  !.width = rectangle.width - relativeX,
                                  !.height = rectangle.height - relativeY] >>
        ELSE IF canDivideHorizontally(rectangle, clickY)
        THEN << [rectangle EXCEPT !.id = id + 1, !.height = relativeY],
                [rectangle EXCEPT !.id = id + 2, !.y = rectangle.y + relativeY] >>
        ELSE IF canDivideVertically(rectangle, clickX)
        THEN << [rectangle EXCEPT !.id = id + 1, !.width = relativeX],
                [rectangle EXCEPT !.id = id + 2, !.x = rectangle.x + relativeX] >>
        ELSE << rectangle >>

\* what one rectangle contributes to newRectangles; pieces take the ids
\* id + 1, id + 2, ...
Pieces(rectangle, clickX, clickY, id) ==
    LET relativeX == clickX - rectangle.x
        relativeY == clickY - rectangle.y
    IN  IF canDivideHorizontally(rectangle, clickY) /\ canDivideVertically(rectangle, clickX)
        THEN << [rectangle EXCEPT !.id = id + 1, !.width = relativeX, !.height = relativeY],
                [rectangle EXCEPT !.id = id + 2, !.x = rectangle.x + relativeX,
                                  !.width = rectangle.width - relativeX,
                                  !.height = relativeY],
                [rectangle EXCEPT !.id = id + 3, !.y = rectangle.y + relativeY,
                                  !.width = relativeX,
                                  !.height = rectangle.height - relativeY],
                [rectangle EXCEPT !.id = id + 4, !.x = rectangle.x + relativeX,
                                  !.y = rectangle.y + relativeY,
                                  !.width = rectangle.width - relativeX,
                                  !.height = rectangle.height - relativeY] >>
        ELSE IF canDivideHorizontally(rectangle, clickY)
        THEN << [rectangle EXCEPT !.id = id + 1, !.height = relativeY],
                [rectangle EXCEPT !.id = id + 2, !.y = rectangle.y + relativeY,
                                  !.height = rectangle.height - relativeY] >>
        ELSE IF canDivideVertically(rectangle, clickX)
        THEN << [rectangle EXCEPT !.id = id + 1, !.width = relativeX],
                [rectangle EXCEPT !.id = id + 2, !.x = rectangle.x + relativeX,
                                  !.width = rectangle.width - relativeX] >>
        ELSE << rectangle >>

RECURSIVE newRectangles(_, _, _, _)
\* the list built by the forEach of divideCrosshairRectangles
newRectangles(rects, clickX, clickY, id) ==
    IF rects = << >> THEN << >>
    ELSE LET pieces == Pieces(Head(rects), clickX, clickY, id)
             used == IF Len(pieces) = 1 THEN 0 ELSE Len(pieces)
         IN  pieces \o newRectangles(Tail(rects), clickX, clickY, id + used)

rectanglesChanged(rects, clickX, clickY) ==
    \E k \in DOMAIN rects :
        canDivideHorizontally(rects[k], clickY) \/ canDivideVertically(rects[k], clickX)

\* the rectangle list after divideCrosshairRectangles(clickX, clickY)
divideCrosshairRectangles(rects, clickX, clickY, id) ==
    IF rectanglesChanged(rects, clickX, clickY)
    THEN newRectangles(rects, clickX, clickY, id)
    ELSE rects

\* the point lies in the rectangle, edges included
Clicked(rectangle, x, y) ==
    /\ x >= rectangle.x /\ x <= rectangle.x + rectangle.width
    /\ y >= rectangle.y /\ y <= rectangle.y + rectangle.height

\* rectangles.findIndex(...): the index, counted from 0, of the first
\* rectangle the point lies in, or -1
clickedRect(rects, x, y) ==
    IF \E k \in DOMAIN rects : Clicked(rects[k], x, y)
    THEN (CHOOSE k \in DOMAIN rects :
             /\ Clicked(rects[k], x, y)
             /\ \A j \in 1..(k - 1) : ~Clicked(rects[j], x, y)) - 1
    ELSE -1

CanvasInit ==
    /\ rectangles = << >>
    /\ isDrawing = FALSE
    /\ startPos = Origin
    /\ draggedRect = NoRect
    /\ dragOffset = Origin
    /\ mousePos = Origin
    /\ rectCount = 0
    /\ downCount = 0
    /\ TilerAtRest
    /\ BoardAtRest

\* mousedown that divides also when the point lies in a rectangle
handleMouseDown_DividesOnHit(p) ==
    /\ downCount < MaxDowns
    /\ downCount' = downCount + 1
    /\ LET hit == clickedRect(rectangles, p.x, p.y)
           divided == divideCrosshairRectangles(rectangles, p.x, p.y, rectCount)
       IN  /\ rectangles' = divided
           /\ rectCount' = IF divided = rectangles THEN rectCount
                           ELSE rectCount + Len(divided)
           /\ IF hit # -1
              THEN /\ draggedRect' = hit
                   /\ dragOffset' = [x |-> p.x - rectangles[hit + 1].x,
                                     y |-> p.y - rectangles[hit + 1].y]
                   /\ UNCHANGED <<isDrawing, startPos>>
              ELSE /\ isDrawing' = TRUE
                   /\ startPos' = p
                   /\ UNCHANGED <<draggedRect, dragOffset>>
    /\ UNCHANGED <<mousePos, vars, boardVars>>

\* mousedown on the canvas at p
handleMouseDown(p) ==
    /\ downCount < MaxDowns
    /\ downCount' = downCount + 1
    /\ LET hit == clickedRect(rectangles, p.x, p.y)
           divided == divideCrosshairRectangles(rectangles, p.x, p.y, rectCount)
       IN  IF hit # -1
           THEN /\ draggedRect' = hit
                /\ dragOffset' = [x |-> p.x - rectangles[hit + 1].x,
                                  y |-> p.y - rectangles[hit + 1].y]
                /\ UNCHANGED <<rectangles, rectCount, isDrawing, startPos>>
           ELSE /\ rectangles' = divided
                /\ rectCount' = IF divided = rectangles THEN rectCount
                                ELSE rectCount + Len(divided)
                /\ isDrawing' = TRUE
                /\ startPos' = p
                /\ UNCHANGED <<draggedRect, dragOffset>>
    /\ UNCHANGED <<mousePos, vars, boardVars>>

\* mousemove at p: the window listener and the canvas handler
canvasMouseMove(p) ==
    /\ mousePos' = p
    /\ rectangles' =
          IF draggedRect # NoRect
          THEN [k \in DOMAIN rectangles |->
                   IF k - 1 = draggedRect
                   THEN [rectangles[k] EXCEPT !.x = p.x - dragOffset.x,
                                              !.y = p.y - dragOffset.y]
                   ELSE rectangles[k]]
          ELSE rectangles
    /\ UNCHANGED <<isDrawing, startPos, draggedRect, dragOffset, rectCount, downCount>>
    /\ UNCHANGED <<vars, boardVars>>

\* mouseup on the canvas at p
handleMouseUp(p) ==
    /\ IF isDrawing
       THEN LET x == Min(startPos.x, p.x)
                y == Min(startPos.y, p.y)
                width == IF p.x >= startPos.x THEN p.x - startPos.x ELSE startPos.x - p.x
                height == IF p.y >= startPos.y THEN p.y - startPos.y ELSE startPos.y - p.y
            IN  /\ IF width > MinDrawn /\ height > MinDrawn
                   THEN /\ rectangles' =
                              Append(rectangles,
                                     Rectangle(rectCount + 1, x, y, width, height,
                                               Len(rectangles) % NumColors))
                        /\ rectCount' = rectCount + 1
                   ELSE UNCHANGED <<rectangles, rectCount>>
                /\ isDrawing' = FALSE
       ELSE UNCHANGED <<rectangles, rectCount, isDrawing>>
    /\ IF draggedRect # NoRect
       THEN draggedRect' = NoRect /\ dragOffset' = Origin
       ELSE UNCHANGED <<draggedRect, dragOffset>>
    /\ UNCHANGED <<startPos, mousePos, downCount, vars, boardVars>>

CanvasNext ==
    \/ \E p \in CanvasPoints : handleMouseDown(p)
    \/ \E p \in CanvasPoints : canvasMouseMove(p)
    \/ \E p \in CanvasPoints : handleMouseUp(p)

CanvasSpec == CanvasInit /\ [][CanvasNext]_<<vars, boardVars, canvasVars>>

----------------------------------------------------------------------------
(* Vocabulary of the properties *)

RECURSIVE Shape(_)
\* a tree with the generated node ids left out
Shape(node) ==
    IF node.type = "null" THEN Null
    ELSE IF node.type = "leaf" THEN [type |-> "leaf", windowId |-> node.windowId]
    ELSE [type |-> "split", orientation |-> node.orientation, ratio |-> node.ratio,
          first |-> Shape(node.first), second |-> Shape(node.second)]

LeafNodes(root) == { n \in NodesOf(root) : n.type = "leaf" }
SplitNodes(root) == { n \in NodesOf(root) : n.type = "split" }
OccupiedLeafIds(root) == { n.id : n \in { l \in LeafNodes(root) : l.windowId # NoWindow } }
EmptyLeafIds(root) == { n.id : n \in { l \in LeafNodes(root) : l.windowId = NoWindow } }

\* the targets a snap preview computed on root can name
SnapTargets(root) == {NoTarget} \cup OccupiedLeafIds(root) \cup EmptyLeafIds(root)

\* window ids held by no leaf of the current tree
AbsentWindows == (1..(MaxWindows + 1)) \ WindowsIn(rootNode)

\* the leaves of root, left to right, without the leaf of the given id
LeavesWithout(root, leafId) ==
    LET Other(l) == l.id # leafId IN SelectSeq(LeavesOf(root), Other)

\* the leaves of root, left to right, without the leaves holding windowId
LeavesNotHolding(root, windowId) ==
    LET Other(l) == l.windowId # windowId IN SelectSeq(LeavesOf(root), Other)

InsertThenRemove(w, t, s) == remove(insertRoot(rootNode, w, t, s, nextNodeId), w)

----------------------------------------------------------------------------
(* C1 *)

\* C1 (as stated): for every reachable root, every window held by no leaf and
\* every target and side a preview can propose, removing the window right
\* after inserting it gives back a tree of the same shape (ids ignored).
C1_InsertThenRemoveRestores ==
    LET shape == Shape(rootNode)
    IN  \A w \in AbsentWindows, t \in SnapTargets(rootNode), s \in Sides :
            Shape(InsertThenRemove(w, t, s)) = shape

\* C1 (amended): insert-then-remove gives back a tree of the same shape when
\* the root is non-null and the target is none or an occupied leaf; from the
\* null root it leaves a single empty leaf; on an empty target leaf it
\* deletes that leaf (the other leaves stay, in order) and its parent split.
C1_InsertThenRemoveByCase ==
    LET shape == Shape(rootNode)
        count == NodeCount(rootNode)
    IN  \A w \in AbsentWindows, s \in Sides :
            /\ rootNode.type = "null" =>
                 Shape(InsertThenRemove(w, NoTarget, s))
                     = [type |-> "leaf", windowId |-> NoWindow]
            /\ rootNode.type # "null" =>
                 /\ \A t \in {NoTarget} \cup OccupiedLeafIds(rootNode) :
                       Shape(InsertThenRemove(w, t, s)) = shape
                 /\ \A t \in EmptyLeafIds(rootNode) :
                       LET back == InsertThenRemove(w, t, s)
                       IN  /\ LeavesOf(back) = LeavesWithout(rootNode, t)
                           /\ NodeCount(back) =
                                count - (IF rootNode.type = "leaf" THEN 1 ELSE 2)

\* a drag is under way over a tree with an occupied and an empty leaf
C1_Witness ==
    /\ rootNode.type = "split"
    /\ OccupiedLeafIds(rootNode) # {}
    /\ EmptyLeafIds(rootNode) # {}
    /\ dragging.type = "drag"
    /\ dragging.windowId \in AbsentWindows
    /\ snapPreview.type = "preview"

----------------------------------------------------------------------------
(* C2 *)

\* C2 (as stated): whenever no leaf holds a window, rootNode is null.
C2_NoOccupantMeansNullRoot ==
    WindowsIn(rootNode) = {} => rootNode.type = "null"

\* C2 (amended): whenever no leaf holds a window, rootNode is null or a
\* single empty leaf (the placeholder leaf of the first insert); no split
\* survives.
C2_NoOccupantMeansNullOrEmptyLeaf ==
    WindowsIn(rootNode) = {} =>
        \/ rootNode.type = "null"
        \/ rootNode.type = "leaf" /\ rootNode.windowId = NoWindow

\* every window was removed again and the placeholder leaf is the root
C2_Witness ==
    /\ rootNode.type = "leaf"
    /\ rootNode.windowId = NoWindow
    /\ windows = << >>
    /\ nextNodeId > 1

----------------------------------------------------------------------------
(* C3 *)

\* C3: no window id is held by more than one leaf of the tree.
C3_NoWindowInTwoLeaves ==
    \A i, j \in DOMAIN LeavesOf(rootNode) :
        (i # j /\ LeavesOf(rootNode)[i].windowId # NoWindow)
            => LeavesOf(rootNode)[i].windowId # LeavesOf(rootNode)[j].windowId

\* two windows are snapped into the tree
C3_Witness == Cardinality(WindowsIn(rootNode)) >= 2

----------------------------------------------------------------------------
(* C4 *)

\* C4: every split node of the tree has two non-null children.
C4_StrictlyBinary ==
    \A n \in SplitNodes(rootNode) : n.first.type # "null" /\ n.second.type # "null"

\* two windows were inserted, one of them was removed from the tree again,
\* and the tree still has a split
C4_Witness ==
    /\ rootNode.type = "split"
    /\ nextNodeId = 7
    /\ Cardinality(WindowsIn(rootNode)) = 1
    /\ Len(windows) = 1

----------------------------------------------------------------------------
(* C5 *)

\* outer rectangles computeBounds is tried on, besides the viewport
OuterSizes == Viewports \cup { [width |-> 0, height |-> 0], [width |-> 1, height |-> 1],
                               [width |-> 7, height |-> 5] }

\* C5: in the bounds of every split the two children tile the parent: along
\* the split axis the second starts where the first ends and their extents
\* sum to the parent's; on the other axis both have the parent's extent.
C5_ChildrenTileParent ==
    \A o \in OuterSizes :
        LET map == computeBounds(rootNode, 0, 0, o.width, o.height)
        IN  \A n \in SplitNodes(rootNode) :
                LET p == map[n.id]
                    a == map[n.first.id]
                    b == map[n.second.id]
                IN  IF n.orientation = "vertical"
                    THEN /\ a.x = p.x /\ b.x = a.x + a.width
                         /\ a.width + b.width = p.width
                         /\ a.width >= 0 /\ b.width >= 0
                         /\ a.y = p.y /\ b.y = p.y
                         /\ a.height = p.height /\ b.height = p.height
                    ELSE /\ a.y = p.y /\ b.y = a.y + a.height
                         /\ a.height + b.height = p.height
                         /\ a.height >= 0 /\ b.height >= 0
                         /\ a.x = p.x /\ b.x = p.x
                         /\ a.width = p.width /\ b.width = p.width

\* a tree with a vertical split nested in a split, laid out in a viewport
\* of odd width
C5_Witness ==
    /\ viewport.width % 2 = 1
    /\ \E n \in SplitNodes(rootNode) :
          n.orientation = "vertical" /\ (n.first.type = "split" \/ n.second.type = "split")

----------------------------------------------------------------------------
(* C6 *)

RECURSIVE Subst(_, _, _)
\* root with the node of the given id replaced by new, everything else kept
Subst(node, id, new) ==
    IF node.type = "null" THEN Null
    ELSE IF node.id = id THEN new
    ELSE IF node.type = "split"
         THEN WithChildren(node, Subst(node.first, id, new), Subst(node.second, id, new))
    ELSE node

\* the split of root whose child is the leaf holding windowId (Null if that
\* leaf is the root or no leaf holds it)
ParentOfWindow(root, windowId) ==
    LET ps == { n \in SplitNodes(root) :
                  \/ n.first.type = "leaf" /\ n.first.windowId = windowId
                  \/ n.second.type = "leaf" /\ n.second.windowId = windowId }
    IN  IF ps = {} THEN Null ELSE CHOOSE n \in ps : TRUE

SiblingOfWindow(parent, windowId) ==
    IF parent.first.type = "leaf" /\ parent.first.windowId = windowId
    THEN parent.second ELSE parent.first

\* C6: removing a window held by the tree deletes its leaf and puts the
\* leaf's sibling, unchanged, in the place of their parent split (the tree
\* becomes null if the leaf was the root); nothing else changes.  For a
\* two-leaf split (A first, B second) removing A leaves the leaf holding B
\* as the root, which then gets the whole viewport.
C6_RemoveCollapsesUpward ==
    \A w \in WindowsIn(rootNode) :
        LET after == remove(rootNode, w)
            parent == ParentOfWindow(rootNode, w)
        IN  /\ LeavesOf(after) = LeavesNotHolding(rootNode, w)
            /\ parent.type = "null" => after = Null
            /\ parent.type = "split" =>
                 after = Subst(rootNode, parent.id, SiblingOfWindow(parent, w))
            /\ (/\ rootNode.type = "split"
                /\ rootNode.first.type = "leaf" /\ rootNode.first.windowId = w
                /\ rootNode.second.type = "leaf" /\ rootNode.second.windowId # NoWindow)
                 => /\ after = rootNode.second
                    /\ computeBounds(after, 0, 0, viewport.width, viewport.height)[after.id]
                         = Bounds(0, 0, viewport.width, viewport.height)

\* the tree is a split of two occupied leaves
C6_Witness ==
    /\ rootNode.type = "split"
    /\ rootNode.first.type = "leaf" /\ rootNode.first.windowId # NoWindow
    /\ rootNode.second.type = "leaf" /\ rootNode.second.windowId # NoWindow

----------------------------------------------------------------------------
(* C7 *)

\* C7: removing a window held by no leaf returns the tree itself, and
\* removing any window twice gives what removing it once gives.
C7_RemoveAbsentIsNoOp ==
    /\ \A w \in AbsentWindows : remove(rootNode, w) = rootNode
    /\ \A w \in 1..(MaxWindows + 1) :
          remove(remove(rootNode, w), w) = remove(rootNode, w)

\* a tree with an occupied and an empty leaf, and a floating window
C7_Witness ==
    /\ OccupiedLeafIds(rootNode) # {}
    /\ EmptyLeafIds(rootNode) # {}
    /\ WindowIds \ WindowsIn(rootNode) # {}

----------------------------------------------------------------------------
(* C8 *)

\* what C8 says of the root r made by inserting window w with side s into
\* the empty tree, laid out in viewport vp
FirstInsertResult(r, w, s, vp) ==
    /\ r.type = "split"
    /\ r.ratio = Half
    /\ r.orientation = (IF s \in {"left", "right"} THEN "vertical" ELSE "horizontal")
    /\ r.first.type = "leaf" /\ r.second.type = "leaf"
    /\ IF s \in {"left", "top"}
       THEN r.first.windowId = w /\ r.second.windowId = NoWindow
       ELSE r.first.windowId = NoWindow /\ r.second.windowId = w
    /\ s = "left" =>
         LET map == computeBounds(r, 0, 0, vp.width, vp.height)
         IN  /\ map[r.first.id] = Bounds(0, 0, vp.width \div 2, vp.height)
             /\ map[r.second.id] =
                  Bounds(vp.width \div 2, 0, vp.width - (vp.width \div 2), vp.height)

\* the step is a pointer release that ends a drag
IsReleaseStep == dragging.type = "drag" /\ dragging'.type = "null"

\* C8: the first insert into the empty tree makes the root a split of ratio
\* 0.5, vertical for left/right and horizontal for top/bottom, of a leaf
\* holding the window and an empty leaf, the window's leaf first exactly for
\* left and top; for left the leaves get the two halves of the viewport
\* width (floor, remainder) at full height.  Checked at every release over
\* the empty tree: for each side the preview could name, and for the insert
\* the release performs.
C8_FirstInsert ==
    [][ (IsReleaseStep /\ rootNode.type = "null") =>
          /\ \A s \in Sides, vp \in Viewports :
                FirstInsertResult(
                    insertRoot(rootNode, dragging.windowId, NoTarget, s, nextNodeId),
                    dragging.windowId, s, vp)
          /\ snapPreview.type = "preview" =>
                FirstInsertResult(rootNode', dragging.windowId, snapPreview.side, viewport')
      ]_vars

\* the first window has just been snapped to the left of the empty tree
C8_Witness ==
    /\ nextNodeId = 4
    /\ rootNode.type = "split"
    /\ rootNode.orientation = "vertical"
    /\ rootNode.first.type = "leaf" /\ rootNode.first.windowId # NoWindow
    /\ rootNode.second.type = "leaf" /\ rootNode.second.windowId = NoWindow

----------------------------------------------------------------------------
(* C9 *)

NodeOfId(root, id) == CHOOSE n \in NodesOf(root) : n.id = id

\* what C9 says of the root r made from root by inserting window w with side
\* s onto the occupied leaf of id t, laid out in viewport vp
OccupiedInsertResult(r, root, t, w, s, vp) ==
    LET old == NodeOfId(root, t)
        news == { n \in SplitNodes(r) : n.id \notin { m.id : m \in NodesOf(root) } }
    IN  /\ Cardinality(news) = 1
        /\ \A n \in news :
              /\ r = Subst(root, t, n)
              /\ n.ratio = Half
              /\ n.orientation = (IF s \in {"left", "right"} THEN "vertical" ELSE "horizontal")
              /\ LET b == IF s \in {"left", "top"} THEN n.first ELSE n.second
                     a == IF s \in {"left", "top"} THEN n.second ELSE n.first
                 IN  /\ a = old
                     /\ b.type = "leaf" /\ b.windowId = w
                     /\ b.id \notin { m.id : m \in NodesOf(root) }
              /\ s = "bottom" =>
                   LET was == computeBounds(root, 0, 0, vp.width, vp.height)[t]
                       map == computeBounds(r, 0, 0, vp.width, vp.height)
                   IN  /\ n.first = old /\ n.second.windowId = w
                       /\ map[n.id] = was
                       /\ map[n.first.id] = [was EXCEPT !.height = was.height \div 2]
                       /\ map[n.second.id] =
                            [was EXCEPT !.y = was.y + (was.height \div 2),
                                        !.height = was.height - (was.height \div 2)]

\* C9: inserting onto an occupied leaf replaces that leaf, and nothing else,
\* by a split of ratio 0.5 of the old leaf and a new leaf holding the
\* window, vertical for left/right and horizontal for top/bottom, the new
\* leaf first exactly for left and top; for bottom the old leaf gets the
\* upper half of the old bounds and the new leaf the lower half.  Checked at
\* every release: for each occupied leaf and side the preview could name,
\* and for the insert the release performs.
C9_InsertOntoOccupiedLeaf ==
    [][ IsReleaseStep =>
          /\ \A t \in OccupiedLeafIds(rootNode), s \in Sides :
                OccupiedInsertResult(
                    insertRoot(rootNode, dragging.windowId, t, s, nextNodeId),
                    rootNode, t, dragging.windowId, s, viewport)
          /\ (/\ snapPreview.type = "preview"
              /\ snapPreview.targetNodeId \in OccupiedLeafIds(rootNode)) =>
                OccupiedInsertResult(rootNode', rootNode, snapPreview.targetNodeId,
                                     dragging.windowId, snapPreview.side, viewport')
      ]_vars

\* a window has been snapped onto the leaf of another: the tree has a split
\* of two occupied leaves below the root
C9_Witness ==
    \E n \in SplitNodes(rootNode) :
        /\ n # rootNode
        /\ n.first.type = "leaf" /\ n.first.windowId # NoWindow
        /\ n.second.type = "leaf" /\ n.second.windowId # NoWindow

----------------------------------------------------------------------------
(* C10 *)

\* what C10 says of the root r made from root by inserting window w onto the
\* unoccupied leaf of id t
EmptyInsertResult(r, root, t, w) ==
    /\ r = Subst(root, t, Leaf(t, w))
    /\ NodeCount(r) = NodeCount(root)
    /\ { n.id : n \in NodesOf(r) } = { n.id : n \in NodesOf(root) }
    /\ Len(LeavesOf(r)) = Len(LeavesOf(root))
    /\ \A i \in DOMAIN LeavesOf(root) :
          LeavesOf(r)[i] =
              IF LeavesOf(root)[i].id = t THEN Leaf(t, w) ELSE LeavesOf(root)[i]

\* C10: inserting onto an unoccupied leaf, for any side, keeps the shape,
\* the node ids and the number of nodes; only the target leaf changes, and
\* it now holds the window.  Checked at every release: for each unoccupied
\* leaf and side the preview could name, and for the insert the release
\* performs.
C10_InsertOntoEmptyLeaf ==
    [][ IsReleaseStep =>
          /\ \A t \in EmptyLeafIds(rootNode), s \in Sides :
                EmptyInsertResult(
                    insertRoot(rootNode, dragging.windowId, t, s, nextNodeId),
                    rootNode, t, dragging.windowId)
          /\ (/\ snapPreview.type = "preview"
              /\ snapPreview.targetNodeId \in EmptyLeafIds(rootNode)) =>
                EmptyInsertResult(rootNode', rootNode, snapPreview.targetNodeId,
                                  dragging.windowId)
      ]_vars

\* the placeholder leaf has been filled: a split of two occupied leaves is
\* the whole tree after two inserts
C10_Witness ==
    /\ nextNodeId = 7
    /\ NodeCount(rootNode) = 3
    /\ Cardinality(WindowsIn(rootNode)) = 2


----------------------------------------------------------------------------
(* C11 *)

\* what C11 says of the root r made from the non-null root by inserting
\* window w with side s and no target
EdgeInsertResult(r, root, w, s) ==
    /\ r.type = "split"
    /\ r.ratio = Half
    /\ r.orientation = (IF s \in {"left", "right"} THEN "vertical" ELSE "horizontal")
    /\ r.id \notin { n.id : n \in NodesOf(root) }
    /\ LET new == IF s \in {"left", "top"} THEN r.first ELSE r.second
           old == IF s \in {"left", "top"} THEN r.second ELSE r.first
       IN  /\ old = root
           /\ new.type = "leaf" /\ new.windowId = w
           /\ new.id \notin { n.id : n \in NodesOf(root) }

\* C11: a viewport-edge insert (no target) on a non-null tree makes the root
\* a split of ratio 0.5, vertical for left/right and horizontal for
\* top/bottom, of a new leaf holding the window and the whole previous tree,
\* unchanged, the new leaf first exactly for left and top.  Checked at every
\* release over a non-null tree: for each side, and for the insert the
\* release performs.
C11_ViewportEdgeInsert ==
    [][ (IsReleaseStep /\ rootNode.type # "null") =>
          /\ \A s \in Sides :
                EdgeInsertResult(
                    insertRoot(rootNode, dragging.windowId, NoTarget, s, nextNodeId),
                    rootNode, dragging.windowId, s)
          /\ (snapPreview.type = "preview" /\ snapPreview.targetNodeId = NoTarget) =>
                EdgeInsertResult(rootNode', rootNode, dragging.windowId, snapPreview.side)
      ]_vars

\* a window has been snapped to a viewport edge of a non-empty tree: the
\* root has a leaf holding a window on one side and a split on the other
C11_Witness ==
    /\ rootNode.type = "split"
    /\ \/ /\ rootNode.first.type = "leaf" /\ rootNode.first.windowId # NoWindow
          /\ rootNode.second.type = "split"
       \/ /\ rootNode.second.type = "leaf" /\ rootNode.second.windowId # NoWindow
          /\ rootNode.first.type = "split"

----------------------------------------------------------------------------
(* C12 *)

\* node ids that name no node of the current tree
UnknownTargets == (1..(nextNodeId + 3)) \ { n.id : n \in NodesOf(rootNode) }

\* C12: an insert whose target is the id of no node of a non-null tree
\* returns that tree, unchanged.  Checked at every release over a non-null
\* tree: for each unknown id and side, and for the insert the release
\* performs when its preview names a node that is gone.
C12_UnknownTargetKeepsTree ==
    [][ (IsReleaseStep /\ rootNode.type # "null") =>
          /\ \A t \in UnknownTargets, s \in Sides :
                insertRoot(rootNode, dragging.windowId, t, s, nextNodeId) = rootNode
          /\ (snapPreview.type = "preview" /\ snapPreview.targetNodeId \in UnknownTargets) =>
                rootNode' = rootNode
      ]_vars

\* a release whose preview named a node that was gone: the window is marked
\* snapped and the non-null tree does not hold it
C12_Witness ==
    /\ rootNode.type # "null"
    /\ \E i \in DOMAIN windows :
          windows[i].isSnapped /\ windows[i].id \notin WindowsIn(rootNode)


----------------------------------------------------------------------------
(* Vocabulary of the snap properties *)

\* pointer positions the hit tester and the snap resolver are probed with:
\* inside, on and outside the viewport, on split boundaries, at and next to
\* the snap threshold
ProbePoints ==
    Pointers \cup
    { [x |-> px, y |-> py] : px \in {-60, 0, 50, 51, 200, 300, 351, 401, 460},
                             py \in {-60, 0, 51, 75, 150, 250, 300, 360} }

Abs(n) == IF n < 0 THEN -n ELSE n

\* the leaf the hit tester finds at p in the current tree and viewport
HitLeaf(p) ==
    findDeepestNodeAtPoint(rootNode, 0, 0, viewport.width, viewport.height, p.x, p.y)

\* the preview the snap resolver computes at p in the current tree and viewport
SnapAt(p) == hitTestForPreview(rootNode, viewport, p.x, p.y)

ViewportBounds == Bounds(0, 0, viewport.width, viewport.height)

\* the distance of p to the nearest of the four edges of rectangle b
MinEdgeDistance(b, p) ==
    Min4(Abs(p.x - b.x), Abs(b.x + b.width - p.x),
         Abs(p.y - b.y), Abs(b.y + b.height - p.y))

\* the rectangle whose edges are the candidates at p: the hit leaf's bounds,
\* or the viewport when no leaf is hit
CandidateBounds(p) ==
    IF HitLeaf(p).type # "null"
    THEN computeBounds(rootNode, 0, 0, viewport.width, viewport.height)[HitLeaf(p).id]
    ELSE ViewportBounds

\* p lies in the viewport, more than the snap distance inside every edge
DeepInsideViewport(p) ==
    /\ p.x > SNAP_DISTANCE /\ p.x < viewport.width - SNAP_DISTANCE
    /\ p.y > SNAP_DISTANCE /\ p.y < viewport.height - SNAP_DISTANCE

\* where onMove puts the dragged window for pointer p
DraggedTo(p) ==
    [x |-> Max(0, Min(p.x - dragging.offsetX, viewport.width - WINDOW_WIDTH)),
     y |-> Max(0, Min(p.y - dragging.offsetY, viewport.height - WINDOW_HEIGHT))]

\* the dragged window stands where a move to p put it
DraggedWindowAt(p) ==
    \E i \in DOMAIN windows :
        /\ windows[i].id = dragging.windowId
        /\ windows[i].x = DraggedTo(p).x /\ windows[i].y = DraggedTo(p).y

\* a step on which a drag begins.  The tree and the viewport a drag works on
\* are those of such a step, or follow from them by a deletion or a resize
\* that could as well have come before the drag began, so the trees and
\* viewports of these steps are all those a pointer move can meet.
IsGrabStep == dragging.type = "null" /\ dragging'.type = "drag"

----------------------------------------------------------------------------
(* C13 *)

----------------------------------------------------------------------------
(* C14 *)

\* the half of rectangle b on the given side: floor(size/2) for the left/top
\* half, the remainder for the right/bottom half, which starts where the
\* first half ends; the full extent on the other axis
HalfOf(b, side) ==
    IF side = "left" THEN Bounds(b.x, b.y, b.width \div 2, b.height)
    ELSE IF side = "right"
         THEN Bounds(b.x + (b.width \div 2), b.y, b.width - (b.width \div 2), b.height)
    ELSE IF side = "top" THEN Bounds(b.x, b.y, b.width, b.height \div 2)
    ELSE Bounds(b.x, b.y + (b.height \div 2), b.width, b.height - (b.height \div 2))

RectOf(pv) == Bounds(pv.x, pv.y, pv.width, pv.height)

\* rectangle a lies inside rectangle b
Inside(a, b) ==
    /\ a.x >= b.x /\ a.y >= b.y
    /\ a.x + a.width <= b.x + b.width
    /\ a.y + a.height <= b.y + b.height

\* C14: during a drag, the preview computed for a point that hits a leaf is
\* exactly the half of the leaf's bounds on the chosen side (floor for the
\* left/top half, remainder for the right/bottom half) and lies inside the
\* leaf's bounds.
C14_PreviewIsHalfOfLeaf ==
    dragging.type = "drag" =>
        \A p \in ProbePoints :
            (HitLeaf(p).type = "leaf" /\ SnapAt(p).type = "preview") =>
                /\ RectOf(SnapAt(p)) = HalfOf(CandidateBounds(p), SnapAt(p).side)
                /\ Inside(RectOf(SnapAt(p)), CandidateBounds(p))

----------------------------------------------------------------------------
(* C15 *)

\* the points of ProbePoints on the dividing line of split n, strictly
\* between the ends of that line, where b is the bounds of n
OnBoundaryOf(n, b) ==
    { p \in ProbePoints :
        IF n.orientation = "vertical"
        THEN /\ p.x = b.x + FloorMul(b.width, n.ratio)
             /\ p.x > b.x /\ p.x < b.x + b.width
             /\ p.y > b.y /\ p.y < b.y + b.height
        ELSE /\ p.y = b.y + FloorMul(b.height, n.ratio)
             /\ p.y > b.y /\ p.y < b.y + b.height
             /\ p.x > b.x /\ p.x < b.x + b.width }

\* C15: during a drag, a point exactly on the dividing line of a split is
\* resolved by the hit tester to a leaf of the split's second child.
C15_BoundaryGoesToSecondChild ==
    dragging.type = "drag" =>
        LET map == computeBounds(rootNode, 0, 0, viewport.width, viewport.height)
        IN  \A n \in SplitNodes(rootNode) :
                \A p \in OnBoundaryOf(n, map[n.id]) :
                    HitLeaf(p) \in NodesOf(n.second)


----------------------------------------------------------------------------
(* C16 *)

\* p lies in rectangle b, edges included
Contains(b, p) ==
    /\ p.x >= b.x /\ p.x <= b.x + b.width
    /\ p.y >= b.y /\ p.y <= b.y + b.height

----------------------------------------------------------------------------
(* C17 *)

SideOrder == << "left", "right", "top", "bottom" >>

\* the distance the snap resolver measures from p to the given side of b
SideDistance(b, p, side) ==
    IF side = "left" THEN p.x - b.x
    ELSE IF side = "right" THEN b.x + b.width - p.x
    ELSE IF side = "top" THEN p.y - b.y
    ELSE b.y + b.height - p.y

\* C17: when a leaf is hit and the least of the four side distances is at
\* most 50 px, the preview names the hit leaf and a side at that least
\* distance, and no side earlier in the order left, right, top, bottom is at
\* that distance.  Checked over every tree and viewport a drag begins on,
\* for every probe point.
C17_NearestSideWithTieBreak ==
    [][ IsGrabStep =>
          LET map == computeBounds(rootNode, 0, 0, viewport.width, viewport.height)
          IN  \A p \in ProbePoints :
                LET leaf == HitLeaf(p)
                IN  leaf.type = "leaf" =>
                      LET b == map[leaf.id]
                          minD == Min4(SideDistance(b, p, "left"), SideDistance(b, p, "right"),
                                       SideDistance(b, p, "top"), SideDistance(b, p, "bottom"))
                      IN  minD <= SNAP_DISTANCE =>
                            LET pv == SnapAt(p)
                            IN  /\ pv.type = "preview"
                                /\ pv.targetNodeId = leaf.id
                                /\ \E i \in 1..4 :
                                      /\ SideOrder[i] = pv.side
                                      /\ SideDistance(b, p, SideOrder[i]) = minD
                                      /\ \A j \in 1..(i - 1) :
                                            SideDistance(b, p, SideOrder[j]) # minD
      ]_vars

\* a move to a point as near to the top as to the left of the leaf it hits
\* left a preview for the left side
C17_Witness ==
    /\ dragging.type = "drag"
    /\ snapPreview.type = "preview"
    /\ snapPreview.side = "left"
    /\ \E p \in Pointers :
          /\ HitLeaf(p).type = "leaf"
          /\ SideDistance(CandidateBounds(p), p, "left")
                = SideDistance(CandidateBounds(p), p, "top")
          /\ SnapAt(p) = snapPreview
          /\ DraggedWindowAt(p)


----------------------------------------------------------------------------
(* C18 *)

\* the viewport-edge test of the snap resolver for one side
NearViewportEdge(p, side) ==
    IF side = "left" THEN p.x <= SNAP_DISTANCE
    ELSE IF side = "right" THEN p.x >= viewport.width - SNAP_DISTANCE
    ELSE IF side = "top" THEN p.y <= SNAP_DISTANCE
    ELSE p.y >= viewport.height - SNAP_DISTANCE

\* C18: during a drag, for a point that hits no leaf, the snap resolver
\* returns none when the point passes no viewport-edge test, and otherwise a
\* preview with no target node for the first side in the order left, right,
\* top, bottom whose test passes, whose rectangle is the half of the viewport
\* on that side.
C18_ViewportEdgePreviewIsHalfOfViewport ==
    dragging.type = "drag" =>
        \A p \in ProbePoints :
            HitLeaf(p).type = "null" =>
                IF \A i \in 1..4 : ~NearViewportEdge(p, SideOrder[i])
                THEN SnapAt(p) = Null
                ELSE \E i \in 1..4 :
                        /\ NearViewportEdge(p, SideOrder[i])
                        /\ \A j \in 1..(i - 1) : ~NearViewportEdge(p, SideOrder[j])
                        /\ SnapAt(p).type = "preview"
                        /\ SnapAt(p).side = SideOrder[i]
                        /\ SnapAt(p).targetNodeId = NoTarget
                        /\ RectOf(SnapAt(p)) = HalfOf(ViewportBounds, SideOrder[i])
                        /\ Inside(RectOf(SnapAt(p)), ViewportBounds)

----------------------------------------------------------------------------
(* C19 *)

\* C19: every occupied leaf of the tree holds the id of a window that is
\* still in the window list.
C19_NoLeafHoldsDeletedWindow ==
    WindowsIn(rootNode) \subseteq WindowIds


----------------------------------------------------------------------------
(* C20 *)

\* the snapped flags of the window list, by window id
SnappedFlags(ws) == { <<ws[i].id, ws[i].isSnapped>> : i \in DOMAIN ws }

\* C20: every pointer release leaves dragging and snapPreview null; a
\* release with no snap preview or with no drag in progress leaves the tree
\* and every window's snapped flag unchanged; and no step puts a window into
\* the tree unless it starts in a drag with a snap preview and ends the drag.
C20_ReleaseEndsDragAndInsertsOnlyWithPreview ==
    [][ /\ onUp =>
            /\ dragging' = Null
            /\ snapPreview' = Null
            /\ (dragging.type = "null" \/ snapPreview.type = "null") =>
                   /\ rootNode' = rootNode
                   /\ SnappedFlags(windows') = SnappedFlags(windows)
        /\ (WindowsIn(rootNode') \ WindowsIn(rootNode) # {}) =>
               /\ dragging.type = "drag"
               /\ snapPreview.type = "preview"
               /\ dragging'.type = "null"
               /\ WindowsIn(rootNode') \ WindowsIn(rootNode) = {dragging.windowId}
      ]_vars

\* after releases: one window was snapped into the tree, another was dragged
\* away from its initial position and released without a preview, so it is
\* floating and not in the tree
C20_Witness ==
    /\ dragging.type = "null"
    /\ snapPreview.type = "null"
    /\ rootNode.type # "null"
    /\ \E i \in DOMAIN windows :
          /\ ~windows[i].isSnapped
          /\ windows[i].y # 0
          /\ windows[i].id \notin WindowsIn(rootNode)


----------------------------------------------------------------------------
(* C21 *)

\* C21: a pointer move leaves the tree, the viewport, the drag and every
\* snapped flag as they were; with no drag in progress it changes nothing;
\* during a drag the window list keeps its length and its ids, every window
\* but the dragged one is unchanged, and the dragged window changes at most
\* in x and y, which end up clamped to 0 <= x <= viewport width - window
\* width and 0 <= y <= viewport height - window height.
C21_MoveNeverMutatesLayout ==
    [][ onMove =>
          /\ rootNode' = rootNode
          /\ viewport' = viewport
          /\ dragging' = dragging
          /\ SnappedFlags(windows') = SnappedFlags(windows)
          /\ dragging.type = "null" => UNCHANGED vars
          /\ DOMAIN windows' = DOMAIN windows
          /\ \A i \in DOMAIN windows :
                IF dragging.type = "drag" /\ windows[i].id = dragging.windowId
                THEN /\ windows'[i] = [windows[i] EXCEPT !.x = windows'[i].x,
                                                         !.y = windows'[i].y]
                     /\ windows'[i].x >= 0
                     /\ windows'[i].x <= viewport.width - WINDOW_WIDTH
                     /\ windows'[i].y >= 0
                     /\ windows'[i].y <= viewport.height - WINDOW_HEIGHT
                ELSE windows'[i] = windows[i]
      ]_vars

\* a move during a drag over a non-empty tree put the dragged window away
\* from its initial position and left a preview
C21_Witness ==
    /\ dragging.type = "drag"
    /\ rootNode.type # "null"
    /\ snapPreview.type = "preview"
    /\ \E p \in Pointers :
          /\ SnapAt(p) = snapPreview
          /\ DraggedWindowAt(p)
          /\ DraggedTo(p).y # 0


----------------------------------------------------------------------------
(* C22 *)

\* C22: a window of the list is flagged as snapped exactly when a leaf of
\* the tree holds its id.
C22_SnappedFlagAgreesWithTree ==
    \A i \in DOMAIN windows :
        windows[i].isSnapped <=> windows[i].id \in WindowsIn(rootNode)


----------------------------------------------------------------------------
(* C23 *)

\* the rectangle computeBounds gives the leaf of root that holds window w
BoundsOfWindow(root, vp, w) ==
    LET leaf == CHOOSE n \in LeafNodes(root) : n.windowId = w
    IN  computeBounds(root, 0, 0, vp.width, vp.height)[leaf.id]

\* C23: on a release with a snap preview that is the one the snap resolver
\* gives for the present tree and viewport at some pointer position, after
\* which the dragged window is in the tree, the rectangle of the leaf that
\* holds the window equals the preview rectangle.
C23_PreviewedIsApplied ==
    [][ ( /\ IsReleaseStep
          /\ snapPreview.type = "preview"
          /\ \E p \in Pointers : SnapAt(p) = snapPreview
          /\ dragging.windowId \notin WindowsIn(rootNode)
          /\ dragging.windowId \in WindowsIn(rootNode') ) =>
            BoundsOfWindow(rootNode', viewport', dragging.windowId) = RectOf(snapPreview)
      ]_vars


----------------------------------------------------------------------------
(* C24 *)

\* the cards of a column, as a set
CardsOf(column) == { column[k] : k \in DOMAIN column }

\* the two columns hold the eight initial cards, each once
CardsConserved ==
    /\ Len(leftColumn) + Len(rightColumn)
          = Len(InitialLeftColumn) + Len(InitialRightColumn)
    /\ CardsOf(leftColumn) \cup CardsOf(rightColumn)
          = CardsOf(InitialLeftColumn) \cup CardsOf(InitialRightColumn)
    /\ Cardinality(CardsOf(leftColumn) \cup CardsOf(rightColumn)) = 8

\* C24: in every state of the board the two columns together hold exactly
\* the eight initial cards, each once; every drag-end leaves the drag state
\* idle; and a drag-end with no drop target, or with the drop target equal
\* to the source position, leaves both columns unchanged.
C24_CardsConserved ==
    /\ []CardsConserved
    /\ [][ handleDragEnd =>
             /\ dragState' = IdleDragState
             /\ (dragState.dropTarget = NoPlace
                    \/ dragState.dropTarget = dragState.draggedFrom) =>
                   UNCHANGED <<leftColumn, rightColumn>>
         ]_boardVars

\* after a drop into the other column and a later drag-end without a move,
\* the board is idle with three and five cards
C24_Witness ==
    /\ ~dragState.isDragging
    /\ dragState = IdleDragState
    /\ dragCount = 2
    /\ Len(leftColumn) = 3
    /\ Len(rightColumn) = 5

----------------------------------------------------------------------------
(* C25 *)

\* the column without the card of the given id, order kept
Without(column, id) ==
    LET Keep(card) == card.id # id
    IN  SelectSeq(column, Keep)

\* C25: a drag-end with a drop target (column d, index t) and source
\* (column c, index i) leaves the order of all other cards in both columns
\* as it was and puts the moved card into column d, once, immediately before
\* the card that was at index t of column d (last, if t was the length of
\* column d); when that card is the moved card itself (d = c and t = i) the
\* columns do not change.
C25_DropPlacement ==
    [][ (handleDragEnd /\ dragState.dropTarget # NoPlace) =>
          LET from == dragState.draggedFrom
              target == dragState.dropTarget
              moved == ColumnOf(from.columnId, leftColumn, rightColumn)[from.index + 1]
              before == ColumnOf(target.columnId, leftColumn, rightColumn)
              after == ColumnOf(target.columnId, leftColumn', rightColumn')
              other == ColumnOf(1 - target.columnId, leftColumn', rightColumn')
          IN  /\ Without(leftColumn', moved.id) = Without(leftColumn, moved.id)
              /\ Without(rightColumn', moved.id) = Without(rightColumn, moved.id)
              /\ moved \notin CardsOf(other)
              /\ \E k \in DOMAIN after :
                    /\ after[k] = moved
                    /\ \A j \in DOMAIN after : after[j] = moved => j = k
                    /\ IF target.index = Len(before) THEN k = Len(after)
                       ELSE IF before[target.index + 1] = moved
                       THEN leftColumn' = leftColumn /\ rightColumn' = rightColumn
                       ELSE k < Len(after) /\ after[k + 1] = before[target.index + 1]
      ]_boardVars

\* card 1 was dropped further down its own column, before card 3, and card 6
\* was dropped into the left column, at its end
C25_Witness ==
    /\ dragState = IdleDragState
    /\ leftColumn = << Card(2, 80), Card(1, 120), Card(3, 100), Card(4, 140), Card(6, 160) >>


----------------------------------------------------------------------------
(* C26 *)

Area(r) == r.width * r.height

RECURSIVE AreaSum(_)
AreaSum(rects) == IF rects = << >> THEN 0 ELSE Area(Head(rects)) + AreaSum(Tail(rects))

\* the insides of two rectangles have a point in common
Overlap(a, b) ==
    /\ a.x < b.x + b.width /\ b.x < a.x + a.width
    /\ a.y < b.y + b.height /\ b.y < a.y + a.height

\* two rectangles share a whole side
Adjacent(a, b) ==
    \/ a.y = b.y /\ a.height = b.height /\ (a.x + a.width = b.x \/ b.x + b.width = a.x)
    \/ a.x = b.x /\ a.width = b.width /\ (a.y + a.height = b.y \/ b.y + b.height = a.y)

\* the pieces exactly tile rectangle r and keep its colour
Tiles(r, pieces) ==
    /\ \A k \in DOMAIN pieces :
          /\ pieces[k].color = r.color
          /\ pieces[k].width > 0 /\ pieces[k].height > 0
          /\ Inside(pieces[k], r)
          /\ \E j \in DOMAIN pieces : j # k /\ Adjacent(pieces[j], pieces[k])
    /\ \A j, k \in DOMAIN pieces : j # k => ~Overlap(pieces[j], pieces[k])
    /\ AreaSum(pieces) = Area(r)

\* the crosshair at p does not cross r, or r is smaller than 2 * minSize on
\* each axis on which it is crossed
LeftAlone(r, p) ==
    /\ horizontalIntersects(r, p.y) => r.height < 2 * minSize
    /\ verticalIntersects(r, p.x) => r.width < 2 * minSize

RECURSIVE DividedInto(_, _, _)
\* the list after is the list before with every rectangle that is not left
\* alone replaced, in place, by two or more pieces that tile it
DividedInto(before, after, p) ==
    IF before = << >> THEN after = << >>
    ELSE \E n \in 1..Len(after) :
            /\ IF LeftAlone(Head(before), p)
               THEN n = 1 /\ after[1] = Head(before)
               ELSE n >= 2 /\ Tiles(Head(before), SubSeq(after, 1, n))
            /\ DividedInto(Tail(before), SubSeq(after, n + 1, Len(after)), p)

\* C26: a mousedown at a point that lies in no rectangle replaces, in place,
\* every rectangle that is crossed by the crosshair and at least 2 * minSize
\* on the crossed axis by pieces that exactly tile it (inside it, adjacent,
\* not overlapping, areas summing to its area, colour kept) and leaves every
\* other rectangle as it is; when every rectangle is left alone the list is
\* unchanged.
C26_DivisionPreservesCoverage ==
    [][ \A p \in CanvasPoints :
          (handleMouseDown(p) /\ clickedRect(rectangles, p.x, p.y) = -1) =>
              /\ DividedInto(rectangles, rectangles', p)
              /\ (\A k \in DOMAIN rectangles : LeftAlone(rectangles[k], p)) =>
                    rectangles' = rectangles
      ]_canvasVars

\* a click at (25,125) divided the 100 x 100 rectangle along y = 125 and left
\* the 50 x 50 rectangle, which the same line crosses, as it was
C26_Witness ==
    /\ isDrawing
    /\ startPos = [x |-> 25, y |-> 125]
    /\ Len(rectangles) = 3
    /\ \E k \in DOMAIN rectangles :
          /\ rectangles[k].width = 50 /\ rectangles[k].height = 50
          /\ horizontalIntersects(rectangles[k], 125)
    /\ \E j, k \in DOMAIN rectangles :
          /\ rectangles[j].width = 100 /\ rectangles[j].height = 25
          /\ rectangles[k].width = 100 /\ rectangles[k].height = 75
          /\ rectangles[k].y = rectangles[j].y + 25

----------------------------------------------------------------------------
(* C27 *)

\* C27: on every mousedown the rectangles change only when the point lies in
\* no rectangle (edges included); then no rectangle is crossed by both
\* crosshair lines, and the list grows by exactly one for each rectangle
\* that can be divided, so every division yields two pieces.
C27_NoFourWayDivision ==
    [][ \A p \in CanvasPoints :
          handleMouseDown(p) =>
              IF clickedRect(rectangles, p.x, p.y) # -1
              THEN rectangles' = rectangles
              ELSE /\ \A k \in DOMAIN rectangles :
                         ~(horizontalIntersects(rectangles[k], p.y)
                             /\ verticalIntersects(rectangles[k], p.x))
                   /\ Len(rectangles') = Len(rectangles)
                         + Cardinality({ k \in DOMAIN rectangles :
                                            \/ canDivideHorizontally(rectangles[k], p.y)
                                            \/ canDivideVertically(rectangles[k], p.x) })
      ]_canvasVars

\* a mousedown strictly inside a rectangle of at least 2 * minSize either way
\* began a drag of that rectangle
C27_Witness ==
    /\ draggedRect # NoRect
    /\ LET r == rectangles[draggedRect + 1]
       IN  /\ r.width >= 2 * minSize /\ r.height >= 2 * minSize
           /\ dragOffset.x > 0 /\ dragOffset.x < r.width
           /\ dragOffset.y > 0 /\ dragOffset.y < r.height

====
